---- MODULE Spec2Model ----
(***************************************************************************)
(* Attribute-to-widget synchronisation of the Param user guide.            *)
(*                                                                         *)
(* The declarations (classes, attributes, defaults, bounds, option lists,  *)
(* the constant flag, the instance `base`, the panels of Example and base) *)
(* are those of examples/user_guide/Param.ipynb.  The accessor, the        *)
(* notification and the binding behind them are not part of the source     *)
(* tree; they follow sections 4.1-4.3 and 7 of the specification.          *)
(*                                                                         *)
(* Numbers are held in tenths (8.2 is 82) so that the bounds (7.5, 10) are *)
(* integers.  A value is a record with a type tag, so that a type check is *)
(* a real check.                                                           *)
(***************************************************************************)
EXTENDS Integers, Sequences, FiniteSets, TLC

VARIABLES
    local,      \* local[o][a]: the value owner o stores itself for a, or Unset
    bound,      \* the owners whose attributes have widgets bound to them
    widget,     \* widget[o][a]: the value displayed by the widget bound to o.a
    subs,       \* the subscriptions <<owner, attribute>> made with watch
    log,        \* the callback invocations, oldest first
    okSets,     \* okSets[p]: successful sets of p made since its subscription
    seen,       \* the value the last invoked callback read from its attribute
    pending,    \* the widget/attribute pairs with an update still to deliver
    result,     \* what the last set returned: "none", "ok" or "rejected"
    last,       \* the last set: how it was made ("set", "edit") and on which attribute
    crashed     \* TRUE once an error has propagated past the accessor

vars ==
    <<local, bound, widget, subs, log, okSets, seen, pending, result, last,
      crashed>>

(***************************************************************************)
(* Bounds of the model.                                                    *)
(***************************************************************************)
MaxCalls == 2

(***************************************************************************)
(* Values.                                                                 *)
(***************************************************************************)
Num(tenths) == [type |-> "num", num |-> tenths, str |-> ""]
Str(s)      == [type |-> "str", num |-> 0, str |-> s]
Unset       == [type |-> "unset", num |-> 0, str |-> ""]

\* The values the sets and the widget edits of the model try on an attribute.
Inputs(a) ==
    CASE a = "y"                      -> {Str("green")}
      [] a = "float_with_hard_bounds" -> {Num(90), Num(95), Num(110), Str("blue")}
      [] a = "select_string"          -> {Str("green"), Str("blue"), Num(90)}

(***************************************************************************)
(* The declarations.                                                       *)
(***************************************************************************)
Classes   == {"BaseClass", "Example"}
Instances == {"base", "example"}
Owners    == Classes \cup Instances

\* class Example(BaseClass); base = BaseClass(); example stands for an
\* instance of Example.
Parent(o) ==
    CASE o = "Example" -> "BaseClass"
      [] o = "base"    -> "BaseClass"
      [] o = "example" -> "Example"
      [] OTHER         -> "none"

Attrs == {"y", "float_with_hard_bounds", "select_string"}

\* The attributes a class declares itself.
Declared(c) ==
    CASE c = "BaseClass" -> {"y", "float_with_hard_bounds"}
      [] c = "Example"   -> {"select_string"}
      [] OTHER           -> {}

RECURSIVE Inherited(_)
\* The attributes of an owner: its own and the inherited ones.
Inherited(o) ==
    IF o = "none" THEN {} ELSE Declared(o) \cup Inherited(Parent(o))

AttrTable == [o \in Owners |-> Inherited(o)]

AttrsOf(o) == AttrTable[o]

y_default == Str("Not editable")

\* Mutant: a default declared outside the bounds.
float_with_hard_bounds_default_out == Num(110)

float_with_hard_bounds_default == Num(82)

\* Mutant: the upper bound declared as 11.
float_with_hard_bounds_bounds_wide == <<75, 110>>

float_with_hard_bounds_bounds == <<75, 100>>

select_string_default == Str("yellow")

\* Mutant: green left out of the objects.
select_string_objects_no_green == {"red", "yellow"}

\* Mutant: blue among the objects.
select_string_objects_with_blue == {"red", "yellow", "green", "blue"}

select_string_objects == {"red", "yellow", "green"}

\* Mutant: y declared without constant=True.
NoConstantAttrs == {}

ConstantAttrs == {"y"}

Default(a) ==
    CASE a = "y"                      -> y_default
      [] a = "float_with_hard_bounds" -> float_with_hard_bounds_default
      [] a = "select_string"          -> select_string_default

\* The declared domain of an attribute: param.Parameter takes any value,
\* param.Number a number within its bounds, param.ObjectSelector one of its
\* objects.
InDomain(a, v) ==
    CASE a = "y" -> v.type \in {"num", "str"}
      [] a = "float_with_hard_bounds" ->
            /\ v.type = "num"
            /\ float_with_hard_bounds_bounds[1] <= v.num
            /\ v.num <= float_with_hard_bounds_bounds[2]
      [] a = "select_string" ->
            /\ v.type = "str"
            /\ v.str \in select_string_objects

(***************************************************************************)
(* Get: an owner reads its own value, or else its parent's.                *)
(***************************************************************************)
\* Mutant: an owner without a value of its own reads BaseClass, whatever the
\* classes in between store.
HolderSkipsSubclass(loc, o, a) ==
    IF loc[o][a] # Unset THEN o ELSE "BaseClass"

RECURSIVE Holder(_, _, _)
Holder(loc, o, a) ==
    IF loc[o][a] # Unset THEN o ELSE Holder(loc, Parent(o), a)

GetIn(loc, o, a) == loc[Holder(loc, o, a)][a]

Get(o, a) == GetIn(local, o, a)

(***************************************************************************)
(* The set accessor (4.1), the notification (4.2) and the binding (4.3).   *)
(***************************************************************************)
\* The pairs a callback may be subscribed to.
Watchable ==
    {<<"base", "float_with_hard_bounds">>, <<"base", "y">>}

\* panel.Row(Example, base): the owners that get widgets.
Bindable == {"Example", "base"}

\* The validation step of a set: range check, membership check, type check.
Validate(a, v) == InDomain(a, v)

\* A set is accepted when the attribute is not constant and the value is valid.
Accepts(a, v) == a \notin ConstantAttrs /\ Validate(a, v)

\* The store after an accepted set of o.a to v.
Store(loc, o, a, v) == [loc EXCEPT ![o][a] = v]

\* Mutant: a set leaves the widgets as they were.
PushNothing(wid, loc, o, a) == wid

\* The displayed values once the store has become loc: every bound widget that
\* reads attribute a through owner o shows what it now reads.
Push(wid, loc, o, a) ==
    [o2 \in Owners |->
        [a2 \in Attrs |->
            IF /\ o2 \in bound
               /\ a2 = a
               /\ a \in AttrsOf(o2)
               /\ Holder(loc, o2, a) = o
            THEN GetIn(loc, o2, a)
            ELSE wid[o2][a2]]]

\* Mutant: every subscribed callback is invoked, whatever attribute it watches.
NotifyEverySubscriber(lg, o, a, v) ==
    LET own    == IF <<o, a>> \in subs
                  THEN Append(lg, [owner |-> o, attr |-> a, value |-> v])
                  ELSE lg
        others == subs \ {<<o, a>>}
    IN  IF others = {} THEN own
        ELSE LET p == CHOOSE q \in others : TRUE
             IN  Append(own, [owner |-> p[1], attr |-> p[2], value |-> v])

\* Mutant: the callback is invoked twice.
NotifyTwice(lg, o, a, v) ==
    IF <<o, a>> \in subs
    THEN Append(Append(lg, [owner |-> o, attr |-> a, value |-> v]),
                [owner |-> o, attr |-> a, value |-> v])
    ELSE lg

\* The callback invocations after an accepted set of o.a to v: one invocation,
\* with the new value, when o.a is subscribed to.
Notify(lg, o, a, v) ==
    IF <<o, a>> \in subs
    THEN Append(lg, [owner |-> o, attr |-> a, value |-> v])
    ELSE lg

\* Mutant: the callback runs before the value is stored.
SeenBeforeStore(o, a, v) == Get(o, a)

\* What a callback invoked by an accepted set of o.a to v reads from o.a: it
\* runs once the value is stored.
SeenByCallback(o, a, v) == GetIn(Store(local, o, a, v), o, a)

\* Mutant: a rejected set raises past the accessor.
RejectRaises ==
    /\ result' = "rejected"
    /\ crashed' = TRUE
    /\ UNCHANGED <<local, bound, widget, subs, log, okSets, seen, pending>>

\* What a rejected set leaves behind: the state as it was, and the result.
Reject ==
    /\ result' = "rejected"
    /\ crashed' = crashed
    /\ UNCHANGED <<local, bound, widget, subs, log, okSets, seen, pending>>

\* Mutant: every bound widget answers a push with an edit of its own.
EchoEveryPush(bnd, wid, loc) ==
    {p \in bnd \X Attrs : p[2] \in AttrsOf(p[1])}

\* The updates still to deliver once an operation has stored loc and the
\* widgets of bnd display wid: a widget passes a value on to its attribute, or
\* an attribute to its widget, only while the two differ.
Echo(bnd, wid, loc) ==
    {p \in bnd \X Attrs :
        p[2] \in AttrsOf(p[1]) /\ wid[p[1]][p[2]] # GetIn(loc, p[1], p[2])}

\* The set accessor, at class or instance level.
Assign(o, a, v) ==
    IF Accepts(a, v)
    THEN /\ (<<o, a>> \in subs) => (Len(log) < MaxCalls)
         /\ result' = "ok"
         /\ local' = Store(local, o, a, v)
         /\ widget' = Push(widget, Store(local, o, a, v), o, a)
         /\ log' = Notify(log, o, a, v)
         /\ okSets' = [p \in Watchable |->
                          IF p = <<o, a>> /\ p \in subs
                          THEN okSets[p] + 1 ELSE okSets[p]]
         /\ seen' = IF <<o, a>> \in subs
                    THEN SeenByCallback(o, a, v) ELSE seen
         /\ pending' = Echo(bound, Push(widget, Store(local, o, a, v), o, a),
                            Store(local, o, a, v))
         /\ UNCHANGED <<bound, subs, crashed>>
    ELSE Reject

\* What the widget of o.a displays after an edit the attribute rejected.
EditRejected(o, a, v) == widget

Init ==
    /\ local = [o \in Owners |->
                  [a \in Attrs |->
                      IF o \in Classes /\ a \in Declared(o)
                      THEN Default(a) ELSE Unset]]
    /\ bound = {}
    /\ widget = [o \in Owners |-> [a \in Attrs |-> Unset]]
    /\ subs = {}
    /\ log = <<>>
    /\ okSets = [p \in Watchable |-> 0]
    /\ seen = Unset
    /\ pending = {}
    /\ result = "none"
    /\ last = [op |-> "none", attr |-> "none"]
    /\ crashed = FALSE

\* obj.attr = v, on a class or on an instance.
SetAt(o, a, v) ==
    /\ crashed = FALSE
    /\ last' = [op |-> "set", attr |-> a]
    /\ Assign(o, a, v)

Set ==
    \E o \in Owners : \E a \in AttrsOf(o) : \E v \in Inputs(a) : SetAt(o, a, v)

\* A user edit through the widget bound to o.a.  The widget of a constant
\* attribute is not editable.
EditAt(o, a, v) ==
    /\ crashed = FALSE
    /\ o \in bound
    /\ a \notin ConstantAttrs
    /\ last' = [op |-> "edit", attr |-> a]
    /\ IF Accepts(a, v)
       THEN Assign(o, a, v)
       ELSE /\ result' = "rejected"
            /\ widget' = EditRejected(o, a, v)
            /\ pending' = Echo(bound, EditRejected(o, a, v), local)
            /\ UNCHANGED <<local, bound, subs, log, okSets, seen, crashed>>

Edit ==
    \E o \in Owners : \E a \in AttrsOf(o) : \E v \in Inputs(a) : EditAt(o, a, v)

\* Mutant: the widgets start from the declared defaults, not the current values.
BindShowsDefaults ==
    /\ bound = {}
    /\ bound' = Bindable
    /\ widget' = [o \in Owners |->
                     [a \in Attrs |->
                         IF o \in Bindable /\ a \in AttrsOf(o)
                         THEN Default(a) ELSE Unset]]
    /\ UNCHANGED <<local, subs, log, okSets, seen, pending, result, last,
                   crashed>>

\* panel.Row(Example, base): a widget is bound to every attribute of Example
\* and of base, and shows its current value.
Bind ==
    /\ bound = {}
    /\ bound' = Bindable
    /\ widget' = [o \in Owners |->
                     [a \in Attrs |->
                         IF o \in Bindable /\ a \in AttrsOf(o)
                         THEN Get(o, a) ELSE Unset]]
    /\ pending' = Echo(Bindable,
                       [o \in Owners |->
                           [a \in Attrs |->
                               IF o \in Bindable /\ a \in AttrsOf(o)
                               THEN Get(o, a) ELSE Unset]],
                       local)
    /\ UNCHANGED <<local, subs, log, okSets, seen, result, last, crashed>>

\* obj.param.watch(callback, attr)
Watch ==
    \E p \in Watchable \ subs :
        /\ subs' = subs \cup {p}
        /\ UNCHANGED <<local, bound, widget, log, okSets, seen, pending,
                       result, last, crashed>>

Next == Set \/ Edit \/ Bind \/ Watch

Spec == Init /\ [][Next]_vars

TypeOK ==
    /\ bound \in {{}, Bindable}
    /\ subs \subseteq Watchable
    /\ Len(log) <= MaxCalls
    /\ result \in {"none", "ok", "rejected"}
    /\ crashed \in BOOLEAN

(***************************************************************************)
(* Helpers of the properties.                                              *)
(***************************************************************************)
\* The number of invocations the log holds for subscription p.
RECURSIVE Count(_, _)
Count(lg, p) ==
    IF lg = <<>> THEN 0
    ELSE (IF <<Head(lg).owner, Head(lg).attr>> = p THEN 1 ELSE 0)
         + Count(Tail(lg), p)

\* A set of o.a to v, made programmatically or through the widget.
AnySetAt(o, a, v) ==
    IF last'.op = "set" THEN SetAt(o, a, v) ELSE EditAt(o, a, v)

\* Instance or subclass i reads attribute a from class c: nothing between i
\* and c stores a value of its own.
RECURSIVE ReadsFrom(_, _, _, _)
ReadsFrom(loc, i, c, a) ==
    IF i = c THEN TRUE
    ELSE IF i = "none" THEN FALSE
    ELSE loc[i][a] = Unset /\ ReadsFrom(loc, Parent(i), c, a)

(***************************************************************************)
(* The properties.  A step is a set of o.a to v when it is a step of       *)
(* SetAt(o, a, v) or EditAt(o, a, v); the properties about sets look at    *)
(* the attribute the step names in last'.                                  *)
(***************************************************************************)

\* C1: a set of an attribute to a value outside its declared domain (out of
\* bounds, not among the options, of the wrong type) leaves every stored value
\* as it was; float_with_hard_bounds, bounds (7.5, 10), holding 8.2 and set
\* to 11 still holds 8.2.  (Stated as: a step keeps the stored values or is no
\* set to a value outside the domain.)
C1_InvalidSetKeepsValue ==
    [][last'.op = "set" =>
        LET a == last'.attr IN
        /\ \/ local' = local
           \/ \A o \in Owners : \A v \in Inputs(a) :
                ~(a \in AttrsOf(o) /\ ~InDomain(a, v) /\ SetAt(o, a, v))
        /\ \A o \in Owners :
            (a = "float_with_hard_bounds" /\ Get(o, a) = Num(82)
                /\ SetAt(o, a, Num(110)))
                => GetIn(local', o, a) = Num(82)]_vars

\* A set of base.float_with_hard_bounds was rejected and base still reads 8.2.
C1_Witness ==
    /\ last = [op |-> "set", attr |-> "float_with_hard_bounds"]
    /\ result = "rejected"
    /\ Get("base", "float_with_hard_bounds") = Num(82)

\* C2 as stated: a set of any attribute to a value inside its declared domain
\* makes the stored value, and the value displayed by the widget bound to the
\* attribute, equal to the new value.
C2_ValidSetUpdates ==
    [][last'.op = "set" =>
        LET a == last'.attr IN
        \A o \in Owners : \A v \in Inputs(a) :
            (a \in AttrsOf(o) /\ InDomain(a, v) /\ SetAt(o, a, v))
                => /\ GetIn(local', o, a) = v
                   /\ (o \in bound => widget'[o][a] = v)]_vars

\* C2 amended: a set of an attribute that is not constant to a value inside its
\* declared domain makes the stored value, and the value displayed by every
\* widget that shows the attribute, equal to the new value.
C2_ValidSetUpdatesNonConstant ==
    [][last'.op = "set" =>
        LET a == last'.attr IN
        \A o \in Owners : \A v \in Inputs(a) :
            (a \in AttrsOf(o) /\ a \notin ConstantAttrs /\ InDomain(a, v)
                /\ SetAt(o, a, v))
                => /\ GetIn(local', o, a) = v
                   /\ (o \in bound => widget'[o][a] = v)
                   /\ \A o2 \in bound :
                        (a \in AttrsOf(o2) /\ ReadsFrom(local', o2, o, a))
                            => widget'[o2][a] = v]_vars

\* base.float_with_hard_bounds was set to 9.5 and its widget shows 9.5.
C2_Witness ==
    /\ last = [op |-> "set", attr |-> "float_with_hard_bounds"]
    /\ result = "ok"
    /\ "base" \in bound
    /\ local["base"]["float_with_hard_bounds"] = Num(95)
    /\ widget["base"]["float_with_hard_bounds"] = Num(95)

\* C3: the constant attribute y rejects every set made after construction,
\* whatever the value: every owner reads the value y had at the end of
\* construction, and every set of y returns a rejection.
C3_ConstantKeepsValue ==
    /\ \A o \in Owners : Get(o, "y") = Str("Not editable")
    /\ (last.attr = "y" => result = "rejected")

\* A set of y was made and rejected.
C3_Witness ==
    /\ last = [op |-> "set", attr |-> "y"]
    /\ result = "rejected"
    /\ Get("base", "y") = Str("Not editable")

\* C4: a subscribed callback is invoked exactly once, with the new value, by
\* each successful set of its attribute, and not at all by a rejected set; the
\* invocations it has had are as many as the successful sets of the attribute
\* since the subscription.
C4_OncePerSuccessfulSet ==
    [][/\ last'.op # "none" =>
            LET a == last'.attr IN
            \A o \in Owners : \A v \in Inputs(a) :
                (<<o, a>> \in subs /\ AnySetAt(o, a, v))
                    => IF a \notin ConstantAttrs /\ InDomain(a, v)
                       THEN log' = Append(log, [owner |-> o, attr |-> a,
                                                value |-> v])
                       ELSE log' = log
       /\ \A p \in Watchable : Count(log', p) = okSets'[p]]_vars

\* Two successful sets of base.float_with_hard_bounds were notified, and a
\* rejected one that followed was not.
C4_Witness ==
    /\ log = <<[owner |-> "base", attr |-> "float_with_hard_bounds",
                value |-> Num(90)],
               [owner |-> "base", attr |-> "float_with_hard_bounds",
                value |-> Num(95)]>>
    /\ okSets[<<"base", "float_with_hard_bounds">>] = 2
    /\ last.attr = "float_with_hard_bounds"
    /\ result = "rejected"

C6_InvalidPushRejected ==
    [][last'.op # "none" =>
        LET a == last'.attr IN
        /\ \/ (local' = local /\ widget' = widget /\ result' = "rejected")
           \/ \A o \in Owners : \A v \in Inputs(a) :
                ~(a \in AttrsOf(o) /\ ~InDomain(a, v) /\ AnySetAt(o, a, v))
        /\ \A o \in Bindable :
            (a = "select_string" /\ a \in AttrsOf(o)
                /\ Get(o, a) = Str("yellow")
                /\ AnySetAt(o, a, Str("blue")))
                => /\ GetIn(local', o, a) = Str("yellow")
                   /\ (o \in bound => widget'[o][a] = Str("yellow"))]_vars

\* The widget of Example.select_string was edited to a rejected value and
\* both sides still hold yellow.
C6_Witness ==
    /\ last = [op |-> "edit", attr |-> "select_string"]
    /\ result = "rejected"
    /\ "Example" \in bound
    /\ Get("Example", "select_string") = Str("yellow")
    /\ widget["Example"]["select_string"] = Str("yellow")

\* C7: after any sequence of widget edits and sets, valid or invalid, every
\* bound widget displays the value its attribute holds.
C7_WidgetEqualsAttribute ==
    \A o \in bound : \A a \in AttrsOf(o) : widget[o][a] = Get(o, a)

\* After a set and an edit the widgets show values other than the defaults,
\* those the attributes hold.
C7_Witness ==
    /\ "base" \in bound
    /\ last.op = "edit"
    /\ Get("base", "float_with_hard_bounds") = Num(90)
    /\ widget["base"]["float_with_hard_bounds"] = Num(90)
    /\ widget["Example"]["select_string"] = Str("green")

\* C8: in every reachable state the value every owner reads for every one of
\* its attributes satisfies the attribute's declared domain.
C8_ValuesInDomain ==
    \A o \in Owners : \A a \in AttrsOf(o) : InDomain(a, Get(o, a))

\* Class-level sets, instance-level sets and an edit have been made.
C8_Witness ==
    /\ local["BaseClass"]["float_with_hard_bounds"] = Num(90)
    /\ local["example"]["float_with_hard_bounds"] = Num(95)
    /\ local["Example"]["select_string"] = Str("green")
    /\ last.op = "edit"
    /\ result = "rejected"

\* C9: a rejected set is a local failure: nothing propagates past the
\* accessor, the rejection shows in the returned result and in nothing else
\* of the state, and no state is crashed.  (Stated as: a step returns a
\* rejection and changes nothing else, or is no set that must be rejected.)
C9_RejectionIsLocal ==
    [][/\ last'.op # "none" =>
            LET a == last'.attr IN
            \/ /\ result' = "rejected"
               /\ crashed' = FALSE
               /\ UNCHANGED <<local, bound, widget, subs, log, okSets>>
            \/ \A o \in Owners : \A v \in Inputs(a) :
                 ~(a \in AttrsOf(o)
                    /\ (a \in ConstantAttrs \/ ~InDomain(a, v))
                    /\ AnySetAt(o, a, v))
       /\ crashed' = FALSE]_vars

\* A set was rejected for the constant and the program goes on.
C9_Witness ==
    /\ last.attr = "y"
    /\ result = "rejected"
    /\ crashed = FALSE
    /\ Len(log) = 1

LastOf(lg, p) ==
    LET idx == {i \in 1..Len(lg) : <<lg[i].owner, lg[i].attr>> = p}
    IN  lg[CHOOSE i \in idx : \A j \in idx : j <= i]

====
